---- MODULE Spec2Model ----
(***************************************************************************)
(* A model of uv-hotkey's HotkeyManager (src/uv-hotkey.py): the binding    *)
(* list, the global environment map, the persisted config file, the hooks  *)
(* installed in the keyboard library and the scripts it launches.          *)
(*                                                                         *)
(* Python strings that the program inspects (hotkey, script_path, name,    *)
(* env values) are sequences of one-character strings, so that emptiness,  *)
(* basename and the " (Copy)" suffix are computed as the code computes     *)
(* them.  Dictionary keys are TLA+ strings.  A dict that the program       *)
(* shares by reference (HotkeyItem.env_vars) lives in a heap of addresses. *)
(***************************************************************************)
EXTENDS Integers, Sequences, FiniteSets, TLC

(***************************************************************************)
(* Bounds of the model.                                                    *)
(***************************************************************************)
MaxHotkeys == 2
MaxSpawns == 2
MaxNameLen == 8

(***************************************************************************)
(* Values the operations are called with.                                  *)
(***************************************************************************)
EmptyStr == <<>>
EmptyEnv == [x \in {} |-> EmptyStr]

KeyT == <<"c", "+", "t">>
KeyR == <<"c", "+", "r">>
PathS == <<"/", "s">>
PathDR == <<"d", "/", "r">>
PathGone == <<"/", "n">>
NameT == <<"T">>
EnvAB == ("A" :> <<"2">> @@ "B" :> <<"3">>)
EnvA == ("A" :> <<"1">> @@ "H" :> <<"g">>)

\* The script files that exist on disk (what os.path.exists answers).
ExistingScripts == {PathS, PathDR}

\* The process environments os.environ may hold.
ProcessEnvs == {("A" :> <<"0">> @@ "H" :> <<"h">> @@ "U" :> <<"u">>)}

\* The global env maps set_global_env_vars is called with.
GlobalEnvInputs == {EmptyEnv, EnvA}

\* The arguments HotkeyItem(...) is constructed with by a caller.
InputArgs ==
  { [hotkey |-> KeyT, script_path |-> PathS, name |-> NameT, env_vars |-> EnvAB],
    [hotkey |-> KeyR, script_path |-> PathGone, name |-> EmptyStr, env_vars |-> EmptyEnv],
    [hotkey |-> EmptyStr, script_path |-> PathDR, name |-> EmptyStr, env_vars |-> EnvA],
    [hotkey |-> KeyT, script_path |-> EmptyStr, name |-> EmptyStr, env_vars |-> EmptyEnv] }

(***************************************************************************)
(* Helpers on Python values.                                               *)
(***************************************************************************)
Max(S) == CHOOSE m \in S : \A x \in S : x <= m

\* os.path.basename: what follows the last separator.
Basename(p) ==
  LET seps == {i \in 1..Len(p) : p[i] = "/"}
  IN  IF seps = {} THEN p ELSE SubSeq(p, Max(seps) + 1, Len(p))

\* dict.update(u) on a copy of d: u's entries override d's.
DictUpdate(d, u) ==
  [x \in (DOMAIN d) \cup (DOMAIN u) |-> IF x \in DOMAIN u THEN u[x] ELSE d[x]]

\* list[index] addressing of Python: a negative index counts from the end.
PyIndex(index, n) == IF index < 0 THEN index + n + 1 ELSE index + 1

\* Mutant: the last entry goes, whatever the position.
DelAt_last(s, pos) == SubSeq(s, 1, Len(s) - 1)

\* del list[pos] (pos a 1-based position).
DelAt(s, pos) == [j \in 1..(Len(s) - 1) |-> IF j < pos THEN s[j] ELSE s[j + 1]]

(***************************************************************************)
(* HotkeyItem.                                                             *)
(***************************************************************************)
HotkeyItem(hotkey, script_path, name, env_vars) ==
  [hotkey |-> hotkey,
   script_path |-> script_path,
   name |-> IF name # EmptyStr THEN name
            ELSE IF script_path # EmptyStr THEN Basename(script_path) ELSE EmptyStr,
   env_vars |-> env_vars]

InputItems ==
  {HotkeyItem(a.hotkey, a.script_path, a.name, a.env_vars) : a \in InputArgs}

(***************************************************************************)
(* JSON documents: the config file holds no file, text json.load rejects,  *)
(* or the JSON value the text denotes.                                     *)
(***************************************************************************)
JStr(s) == [t |-> "str", v |-> s]
JNum(n) == [t |-> "num", v |-> n]
JList(items) == [t |-> "list", items |-> items]
JObj(m) == [t |-> "obj", m |-> m]

FileAbsent == [kind |-> "absent"]
FileGarbage == [kind |-> "garbage"]
FileJson(j) == [kind |-> "json", json |-> j]

EnvToJson(e) == JObj([x \in DOMAIN e |-> JStr(e[x])])
EnvFromJson(j) == [x \in DOMAIN j.m |-> j.m[x].v]

\* The mutant: to_dict that forgets env_vars.
to_dict_no_env(item) ==
  JObj("hotkey" :> JStr(item.hotkey) @@ "script_path" :> JStr(item.script_path)
       @@ "name" :> JStr(item.name))

\* HotkeyItem.to_dict, on an item whose env_vars is the dict's content.
to_dict(item) ==
  JObj("hotkey" :> JStr(item.hotkey) @@ "script_path" :> JStr(item.script_path)
       @@ "name" :> JStr(item.name) @@ "env_vars" :> EnvToJson(item.env_vars))

\* dict.get(key, default)
Get(data, key, default) == IF key \in DOMAIN data.m THEN data.m[key] ELSE default

\* HotkeyItem.from_dict, on a JSON object.
from_dict(data) ==
  HotkeyItem(Get(data, "hotkey", JStr(EmptyStr)).v,
             Get(data, "script_path", JStr(EmptyStr)).v,
             Get(data, "name", JStr(EmptyStr)).v,
             EnvFromJson(Get(data, "env_vars", JObj(EmptyEnv))))

\* The document save_config writes for a binding list (env_vars by content)
\* and a global env map.
ConfigJson(items, genv) ==
  JObj("hotkeys" :> JList([i \in 1..Len(items) |-> to_dict(items[i])])
       @@ "global_env_vars" :> EnvToJson(genv))

\* What the elements of data.get("hotkeys", []) are when it is iterated:
\* a list's items, a dict's keys, a string's characters.
IterItems(j) ==
  IF j.t = "list" THEN j.items
  ELSE IF j.t = "obj" THEN [i \in 1..Cardinality(DOMAIN j.m) |-> JStr(EmptyStr)]
  ELSE IF j.t = "str" THEN [i \in 1..Len(j.v) |-> JStr(EmptyStr)]
  ELSE <<>>

Loaded(exc, items, genv) == [exc |-> exc, hotkeys |-> items, global_env_vars |-> genv]

\* The body of load_config's try block on the parsed document: the exception
\* it raises ("none" when it completes) and the state it assigns.  An
\* exception other than JSONDecodeError and IOError is not caught, and leaves
\* the attributes as the constructor set them.
LoadJson(data) ==
  IF data.t # "obj" THEN Loaded("AttributeError", <<>>, EmptyEnv)
  ELSE LET hk == Get(data, "hotkeys", JList(<<>>))
           its == IterItems(hk)
       IN  IF hk.t = "num" THEN Loaded("TypeError", <<>>, EmptyEnv)
           ELSE IF \E i \in 1..Len(its) : its[i].t # "obj"
                THEN Loaded("AttributeError", <<>>, EmptyEnv)
           ELSE Loaded("none",
                       [i \in 1..Len(its) |-> from_dict(its[i])],
                       EnvFromJson(Get(data, "global_env_vars", JObj(EmptyEnv))))

\* load_config on a file: readable tells whether open() succeeds.
LoadResult(file, readable) ==
  IF file.kind = "absent" THEN Loaded("none", <<>>, EmptyEnv)
  ELSE IF ~readable \/ file.kind = "garbage" THEN Loaded("none", <<>>, EmptyEnv)
  ELSE LoadJson(file.json)

(***************************************************************************)
(* The state.                                                              *)
(***************************************************************************)
VARIABLES
  hotkeys,          \* HotkeyManager.hotkeys: the bindings, env_vars an address
  global_env_vars,  \* HotkeyManager.global_env_vars
  active_hotkeys,   \* HotkeyManager.active_hotkeys: hotkey -> callback's item
  heap,             \* the env_vars dict objects: address -> content
  config,           \* CONFIG_FILE
  hooks,            \* the keyboard library's registered hotkeys, in order
  logs,             \* the script log files in LOGS_DIR: <<name, timestamp>>
  nproc,            \* how many scripts were spawned
  now,              \* the second of the last launch (seconds without one are skipped)
  environ,          \* os.environ
  pc,               \* each thread's position
  k,                \* each thread's position in register_all_hotkeys' loop
  count,            \* each thread's count in register_all_hotkeys
  call,             \* the current (or, when idle, last) operation, by thread
  trace,            \* the collaborator calls that operation has made, in order
  lock,             \* a transcription script's LOCK_FILE: 0, or who created it
  output,           \* the script's OUTPUT_FILE
  selected,         \* copy-transcribe-paste.py's SELECTED_TEXT_FILE exists
  proc,             \* the invocations of the script
  destinations,     \* DestinationSelector.destinations
  destinations_file,\* DestinationSelector.config_file
  selector          \* the position of the DestinationSelector dialog

\* The state of uv-hotkey.py, of a transcription script and of screenshot.py.
manager_vars == <<hotkeys, global_env_vars, active_hotkeys, heap, config, hooks, logs,
                  nproc, now, environ, pc, k, count, call, trace>>
script_vars == <<lock, output, selected, proc>>
selector_vars == <<destinations, destinations_file, selector>>

vars == <<manager_vars, script_vars, selector_vars>>

Threads == {"gui", "listener"}

RetNone == [none |-> TRUE, v |-> 0]
RetInt(n) == [none |-> FALSE, v |-> n]

NoItem == HotkeyItem(EmptyStr, EmptyStr, EmptyStr, 0)

NoCall ==
  [op |-> "none", index |-> 0, inrange |-> FALSE, item |-> NoItem,
   env |-> EmptyEnv, ret |-> RetNone, exc |-> "none", exists |-> FALSE,
   spawn |-> "none", spawn_env |-> EmptyEnv, log |-> <<EmptyStr, 0>>,
   original_hotkey |-> EmptyStr]

Event(e, idx, ok) == [e |-> e, idx |-> idx, ok |-> ok]

\* A binding with its env_vars dict's content in place of the address.
View(item, h) == [item EXCEPT !.env_vars = h[item.env_vars]]
Views(items, h) == [i \in 1..Len(items) |-> View(items[i], h)]

\* The address of a newly created dict.
NewAddr(h) == CHOOSE a \in 1..(Cardinality(DOMAIN h) + 1) : a \notin DOMAIN h

\* Addresses name dict objects and the program cannot observe them: once no
\* hook refers to a binding any more the dicts are renamed after the position
\* of the first binding that holds them, and those no binding holds are freed,
\* but for the dict of the binding a run_script in flight was called with,
\* which moves behind them.
FirstPos(items, a) == CHOOSE i \in 1..Len(items) :
                        /\ items[i].env_vars = a
                        /\ \A j \in 1..(i - 1) : items[j].env_vars # a
Renamed(items, item) ==
  IF \E i \in 1..Len(items) : items[i].env_vars = item.env_vars
  THEN [item EXCEPT !.env_vars = FirstPos(items, item.env_vars)]
  ELSE IF item.env_vars = 0 THEN item
       ELSE [item EXCEPT !.env_vars = Len(items) + 1]
Compact(items) == [i \in 1..Len(items) |-> Renamed(items, items[i])]
CompactHeap(items, h) ==
  [a \in {FirstPos(items, items[i].env_vars) : i \in 1..Len(items)} |-> h[items[a].env_vars]]

AllIdle == \A t \in Threads : pc[t] = "idle"

\* The dicts no binding of the list holds that a run_script in flight reads
\* at line 354 or has just read.
PinnedAddrs ==
  {call[u].item.env_vars : u \in {v \in Threads : pc[v] \in {"spawn", "resync"}}}
    \ {hotkeys[i].env_vars : i \in 1..Len(hotkeys)}
PinnedHeap ==
  [a \in {Len(hotkeys) + 1 : x \in PinnedAddrs} |-> heap[CHOOSE x \in PinnedAddrs : TRUE]]

\* The config files the program may find at startup.
InitialFiles ==
  { FileAbsent,
    FileGarbage,
    FileJson(JList(<<>>)),
    FileJson(JObj("hotkeys" :> JList(<<JStr(KeyT)>>))),
    FileJson(JObj("hotkeys" :> JNum(5))),
    FileJson(JObj(EmptyEnv)),
    FileJson(JObj("hotkeys" :> JList(<<JObj("hotkey" :> JStr(KeyR)
                                            @@ "script_path" :> JStr(PathGone))>>))),
    FileJson(ConfigJson(<<HotkeyItem(KeyT, PathS, NameT, EnvAB)>>, EnvA)) }

\* The invocations of a transcription script that are followed.
MaxInvocations == 3
Invocations == 1..MaxInvocations

\* OUTPUT_FILE: whether it exists, whose recording it holds (0: one of an
\* earlier session) and whether that was written out and closed.
NoWave == [exists |-> FALSE, by |-> 0, complete |-> FALSE]
Wave(p, complete) == [exists |-> TRUE, by |-> p, complete |-> complete]

\* An invocation that has not started: its position, the script it runs,
\* whether its frames list holds anything, the file transcribe_audio opened
\* and whose lock its set_recording_state("stop") removed.
NotStarted ==
  [pc |-> "idle", script |-> "none", frames |-> FALSE, heard |-> NoWave, stopped |-> 0]

\* No transcription script has been started.
ScriptsAbsent ==
  /\ lock = 0
  /\ output = NoWave
  /\ selected = FALSE
  /\ proc = [p \in Invocations |-> NotStarted]

\* No DestinationSelector has been constructed.
SelectorAbsent ==
  /\ destinations = <<>>
  /\ destinations_file = FileAbsent
  /\ selector = "none"

\* uv-hotkey.py is not followed.
ManagerAbsent ==
  /\ hotkeys = <<>>
  /\ global_env_vars = EmptyEnv
  /\ active_hotkeys = EmptyEnv
  /\ heap = EmptyEnv
  /\ config = FileAbsent
  /\ hooks = <<>>
  /\ logs = {}
  /\ nproc = 0
  /\ now = 0
  /\ environ = EmptyEnv
  /\ pc = [t \in Threads |-> "idle"]
  /\ k = [t \in Threads |-> 0]
  /\ count = [t \in Threads |-> 0]
  /\ call = [t \in Threads |-> NoCall]
  /\ trace = [t \in Threads |-> <<>>]

Init ==
  /\ ScriptsAbsent
  /\ SelectorAbsent
  /\ hotkeys = <<>>
  /\ global_env_vars = EmptyEnv
  /\ active_hotkeys = EmptyEnv
  /\ heap = EmptyEnv
  /\ config \in InitialFiles
  /\ hooks = <<>>
  /\ logs = {}
  /\ nproc = 0
  /\ now = 0
  /\ environ \in ProcessEnvs
  /\ pc = [t \in Threads |-> IF t = "gui" THEN "init" ELSE "idle"]
  /\ k = [t \in Threads |-> 0]
  /\ count = [t \in Threads |-> 0]
  /\ call = [t \in Threads |-> NoCall]
  /\ trace = [t \in Threads |-> <<>>]

\* What is recorded when thread t is called with operation c: only the last
\* operation is remembered, and the operation another thread is inside.
Begin(t, c) ==
  /\ call' = [u \in Threads |-> IF u = t THEN c
                                 ELSE IF pc[u] = "idle" THEN NoCall ELSE call[u]]
  /\ trace' = [u \in Threads |-> IF u # t /\ pc[u] # "idle" THEN trace[u] ELSE <<>>]
  /\ k' = [u \in Threads |-> IF u # t /\ pc[u] # "idle" THEN k[u] ELSE 0]
  /\ count' = [u \in Threads |-> IF u # t /\ pc[u] # "idle" THEN count[u] ELSE 0]

(***************************************************************************)
(* HotkeyManager.__init__ and load_config.                                 *)
(***************************************************************************)
load_config ==
  /\ pc["gui"] = "init"
  /\ \E readable \in BOOLEAN :
       LET r == LoadResult(config, readable)
           n == Len(r.hotkeys)
       IN  /\ Begin("gui", [NoCall EXCEPT !.op = "load_config", !.exc = r.exc])
           /\ hotkeys' = [i \in 1..n |-> [r.hotkeys[i] EXCEPT !.env_vars = i]]
           /\ heap' = [a \in 1..n |-> r.hotkeys[a].env_vars]
           /\ global_env_vars' = r.global_env_vars
           /\ pc' = [pc EXCEPT !["gui"] = IF r.exc = "none" THEN "loaded" ELSE "crashed"]
  /\ UNCHANGED <<active_hotkeys, config, hooks, logs, nproc, now, environ>>
  /\ UNCHANGED <<script_vars, selector_vars>>

\* The main script's register_all_hotkeys() once the tray icon is up.
main_register ==
  /\ pc["gui"] = "loaded"
  /\ Begin("gui", [NoCall EXCEPT !.op = "register_all_hotkeys"])
  /\ pc' = [pc EXCEPT !["gui"] = "unhook"]
  /\ UNCHANGED <<hotkeys, global_env_vars, active_hotkeys, heap, config, hooks,
                 logs, nproc, now, environ>>
  /\ UNCHANGED <<script_vars, selector_vars>>

(***************************************************************************)
(* The mutating operations.  Each begins on an idle program, changes the   *)
(* in-memory state and continues with save_config and, but for             *)
(* set_global_env_vars, register_all_hotkeys.                              *)
(***************************************************************************)
\* Mutant: the bound check accepts every index Python accepts (-n <= index < n).
InRange_python(index, n) == index < n /\ index + n >= 0

\* The bound check of update_hotkey, remove_hotkey and duplicate_hotkey.
InRange(index, n) == 0 <= index /\ index < n

\* Mutant: add_hotkey registers without saving.
AfterMutation_no_save(op) == IF op = "add_hotkey" THEN "unhook" ELSE "save"

\* Where an operation continues once it has changed the in-memory state.
AfterMutation(op) == "save"

\* Mutant: update_hotkey returns after saving, as set_global_env_vars does.
AfterSave_no_register(op) ==
  IF op \in {"set_global_env_vars", "update_hotkey"} THEN "idle" ELSE "unhook"

\* Where an operation continues once save_config has returned.
AfterSave(op) == IF op = "set_global_env_vars" THEN "idle" ELSE "unhook"

\* The indexes the operations are called with.
Indexes == (-1)..Len(hotkeys)

\* The heap with a dict of the given content at the given address.
Store(h, a, content) == [x \in (DOMAIN h) \cup {a} |-> IF x = a THEN content ELSE h[x]]

add_hotkey(hotkey_item) ==
  /\ AllIdle
  /\ Len(hotkeys) < MaxHotkeys
  /\ Begin("gui", [NoCall EXCEPT !.op = "add_hotkey", !.inrange = TRUE])
  /\ LET a == NewAddr(heap)
     IN  /\ heap' = Store(heap, a, hotkey_item.env_vars)
         /\ hotkeys' = Append(hotkeys, [hotkey_item EXCEPT !.env_vars = a])
  /\ pc' = [pc EXCEPT !["gui"] = AfterMutation("add_hotkey")]
  /\ UNCHANGED <<global_env_vars, active_hotkeys, config, hooks, logs, nproc, now,
                 environ>>
  /\ UNCHANGED <<script_vars, selector_vars>>

update_hotkey(index, hotkey_item) ==
  /\ AllIdle
  /\ Begin("gui", [NoCall EXCEPT !.op = "update_hotkey", !.index = index,
                                 !.inrange = InRange(index, Len(hotkeys))])
  /\ IF InRange(index, Len(hotkeys))
     THEN LET a == NewAddr(heap)
          IN  /\ heap' = Store(heap, a, hotkey_item.env_vars)
              /\ hotkeys' = [hotkeys EXCEPT ![PyIndex(index, Len(hotkeys))] =
                                              [hotkey_item EXCEPT !.env_vars = a]]
              /\ pc' = [pc EXCEPT !["gui"] = AfterMutation("update_hotkey")]
     ELSE UNCHANGED <<heap, hotkeys, pc>>
  /\ UNCHANGED <<global_env_vars, active_hotkeys, config, hooks, logs, nproc, now,
                 environ>>
  /\ UNCHANGED <<script_vars, selector_vars>>

remove_hotkey(index) ==
  /\ AllIdle
  /\ Begin("gui", [NoCall EXCEPT !.op = "remove_hotkey", !.index = index,
                                 !.inrange = InRange(index, Len(hotkeys))])
  /\ IF InRange(index, Len(hotkeys))
     THEN /\ hotkeys' = DelAt(hotkeys, PyIndex(index, Len(hotkeys)))
          /\ pc' = [pc EXCEPT !["gui"] = AfterMutation("remove_hotkey")]
     ELSE UNCHANGED <<hotkeys, pc>>
  /\ UNCHANGED <<global_env_vars, active_hotkeys, heap, config, hooks, logs, nproc,
                 now, environ>>
  /\ UNCHANGED <<script_vars, selector_vars>>

\* " (Copy)"
CopySuffix == <<" ", "(", "C", "o", "p", "y", ")">>

\* Mutant: the duplicate shares the original's dict.
CopyAddr_shared(original, h) == original.env_vars

\* The address of the duplicate's env_vars: original.env_vars.copy() is a new dict.
CopyAddr(original, h) == NewAddr(h)

\* The duplicate that duplicate_hotkey constructs, its env_vars at address a.
Duplicate(original, a) ==
  HotkeyItem(original.hotkey, original.script_path, original.name \o CopySuffix, a)

duplicate_hotkey(index) ==
  /\ AllIdle
  /\ InRange(index, Len(hotkeys)) =>
       /\ Len(hotkeys) < MaxHotkeys
       /\ Len(hotkeys[PyIndex(index, Len(hotkeys))].name) + Len(CopySuffix) <= MaxNameLen
  /\ IF InRange(index, Len(hotkeys))
     THEN LET original == hotkeys[PyIndex(index, Len(hotkeys))]
              a == CopyAddr(original, heap)
          IN  /\ Begin("gui", [NoCall EXCEPT !.op = "duplicate_hotkey",
                                             !.index = index, !.inrange = TRUE])
              /\ heap' = Store(heap, a, heap[original.env_vars])
              /\ hotkeys' = Append(hotkeys, Duplicate(original, a))
              /\ pc' = [pc EXCEPT !["gui"] = AfterMutation("duplicate_hotkey")]
     ELSE /\ Begin("gui", [NoCall EXCEPT !.op = "duplicate_hotkey", !.index = index,
                                         !.ret = RetInt(-1)])
          /\ UNCHANGED <<heap, hotkeys, pc>>
  /\ UNCHANGED <<global_env_vars, active_hotkeys, config, hooks, logs, nproc, now,
                 environ>>
  /\ UNCHANGED <<script_vars, selector_vars>>

\* Mutant: the new map is merged into the old one.
NewGlobal_merged(old, env_vars) == DictUpdate(old, env_vars)

\* self.global_env_vars = env_vars
NewGlobal(old, env_vars) == env_vars

set_global_env_vars(env_vars) ==
  /\ AllIdle
  /\ Begin("gui", [NoCall EXCEPT !.op = "set_global_env_vars", !.env = env_vars,
                                 !.inrange = TRUE])
  /\ global_env_vars' = NewGlobal(global_env_vars, env_vars)
  /\ pc' = [pc EXCEPT !["gui"] = AfterMutation("set_global_env_vars")]
  /\ UNCHANGED <<hotkeys, active_hotkeys, heap, config, hooks, logs, nproc, now,
                 environ>>
  /\ UNCHANGED <<script_vars, selector_vars>>

(***************************************************************************)
(* save_config: the write succeeds, or open() fails and leaves the file,   *)
(* or the write fails after open() has truncated it.  An IOError is caught.*)
(***************************************************************************)
SaveOutcomes == {"ok", "open_failed", "write_failed"}

\* Mutant: the file holds the new state whatever happened to the write.
Written_anyway(outcome, old, new) == new

\* The config file after save_config: the new state, or the old file when
\* open() raised, or what json.loads rejects when the write broke off.
Written(outcome, old, new) ==
  IF outcome = "ok" THEN new
  ELSE IF outcome = "open_failed" THEN old ELSE FileGarbage

save_config(t, outcomes) ==
  /\ pc[t] = "save"
  /\ \E outcome \in outcomes :
       /\ config' = Written(outcome, config,
                            FileJson(ConfigJson(Views(hotkeys, heap), global_env_vars)))
       /\ trace' = [trace EXCEPT ![t] = Append(@, Event("save", 0, outcome = "ok"))]
  /\ pc' = [pc EXCEPT ![t] = AfterSave(call[t].op)]
  /\ UNCHANGED <<hotkeys, global_env_vars, active_hotkeys, heap, hooks, logs, nproc,
                 now, environ, k, count, call>>
  /\ UNCHANGED <<script_vars, selector_vars>>

(***************************************************************************)
(* register_all_hotkeys: unhook everything, then hook each active binding. *)
(* keyboard.add_hotkey may raise for a binding; the loop goes on.          *)
(***************************************************************************)
\* Mutant: a hotkey alone makes a binding eligible.
IsActive_hotkey_only(item) == item.hotkey # EmptyStr

\* The binding is eligible for registration.
IsActive(item) == item.hotkey # EmptyStr /\ item.script_path # EmptyStr

\* Mutant: the exception of keyboard.add_hotkey ends the loop.
NextPosition_abort(i, n, failed) == IF failed THEN n + 1 ELSE i + 1

\* The loop position after the binding at position i (of n) has been handled;
\* failed tells that keyboard.add_hotkey raised.
NextPosition(i, n, failed) == i + 1

\* The count after keyboard.add_hotkey returned or raised.
NextCount(c, failed) == IF failed THEN c ELSE c + 1

register_begin(t) ==
  /\ pc[t] = "unhook"
  /\ hooks' = <<>>
  /\ count' = [count EXCEPT ![t] = 0]
  /\ active_hotkeys' = EmptyEnv
  /\ hotkeys' = Compact(hotkeys)
  /\ heap' = CompactHeap(hotkeys, heap) @@ PinnedHeap
  /\ call' = [u \in Threads |-> [call[u] EXCEPT !.item = Renamed(hotkeys, @)]]
  /\ k' = [k EXCEPT ![t] = 1]
  /\ trace' = [trace EXCEPT ![t] = Append(@, Event("unhook_all", 0, TRUE))]
  /\ pc' = [pc EXCEPT ![t] = "hook"]
  /\ UNCHANGED <<global_env_vars, config, logs, nproc, now, environ>>
  /\ UNCHANGED <<script_vars, selector_vars>>

\* Mutant: the callback is bound to the loop's last binding.
Callback_last(items, i) == items[Len(items)]

\* The binding partial(self.run_script, item) launches, made at position i.
Callback(items, i) == items[i]

\* keyboard.add_hotkey raises (TRUE) or returns (FALSE).
HookOutcomes == BOOLEAN

register_item(t, outcomes) ==
  /\ pc[t] = "hook"
  /\ k[t] <= Len(hotkeys)
  /\ LET item == hotkeys[k[t]]
     IN  IF IsActive(item)
         THEN \E failed \in outcomes :
                /\ hooks' = IF failed THEN hooks
                            ELSE Append(hooks, [hotkey |-> item.hotkey,
                                                item |-> Callback(hotkeys, k[t])])
                /\ active_hotkeys' = IF failed THEN active_hotkeys
                                     ELSE DictUpdate(active_hotkeys, (item.hotkey :> item))
                /\ count' = [count EXCEPT ![t] = NextCount(@, failed)]
                /\ trace' = [trace EXCEPT ![t] = Append(@, Event("add_hotkey", k[t], ~failed))]
                /\ k' = [k EXCEPT ![t] = NextPosition(@, Len(hotkeys), failed)]
         ELSE /\ k' = [k EXCEPT ![t] = @ + 1]
              /\ UNCHANGED <<hooks, active_hotkeys, count, trace>>
  /\ UNCHANGED <<hotkeys, global_env_vars, heap, config, logs, nproc, now, environ,
                 pc, call>>
  /\ UNCHANGED <<script_vars, selector_vars>>

\* The loop is over: the count is logged and the operation that called
\* register_all_hotkeys returns.
register_end(t) ==
  /\ pc[t] = "hook"
  /\ k[t] > Len(hotkeys)
  /\ pc' = [pc EXCEPT ![t] = "idle"]
  /\ call' = [call EXCEPT ![t].ret = IF call[t].op = "duplicate_hotkey"
                                     THEN RetInt(Len(hotkeys) - 1) ELSE RetNone]
  /\ UNCHANGED <<hotkeys, global_env_vars, active_hotkeys, heap, config, hooks, logs,
                 nproc, now, environ, k, count, trace>>
  /\ UNCHANGED <<script_vars, selector_vars>>

(***************************************************************************)
(* run_script, called by the keyboard library when a hooked hotkey is      *)
(* pressed.                                                                *)
(***************************************************************************)
\* Mutant: the existence check is gone.
ScriptMissing_never(item) == FALSE

\* os.path.exists(hotkey_item.script_path) is false.
ScriptMissing(item) == item.script_path \notin ExistingScripts

\* str.lower() and str.replace(" ", "_") on one character.
LowerChar(c) == IF c = "T" THEN "t" ELSE IF c = "C" THEN "c" ELSE c
SafeName(name) ==
  [i \in 1..Len(name) |-> IF name[i] = " " THEN "_" ELSE LowerChar(name[i])]

\* The log file of a launch at the given second.
LogFile(item, time) == <<SafeName(item.name), time>>

\* Mutant: the global map is left out.
LaunchEnv_no_global(process, global, binding) == DictUpdate(process, binding)

\* Mutant: the two updates in the other order.
LaunchEnv_swapped(process, global, binding) ==
  DictUpdate(DictUpdate(process, binding), global)

\* The environment of the spawned script: os.environ, updated with the global
\* map, updated with the binding's map.
LaunchEnv(process, global, binding) == DictUpdate(DictUpdate(process, global), binding)

\* The keyboard listener thread enters run_script through the i-th hook.
Press(i) ==
  /\ pc["listener"] = "idle"
  /\ i \in 1..Len(hooks)
  /\ nproc < MaxSpawns
  /\ Cardinality(logs) < MaxSpawns
  /\ LET item == hooks[i].item
     IN  /\ Begin("listener", [NoCall EXCEPT !.op = "run_script", !.item = item,
                                             !.exists = ~ScriptMissing(item)])
         /\ pc' = [pc EXCEPT !["listener"] = IF ScriptMissing(item) THEN "idle" ELSE "spawn"]
  /\ UNCHANGED <<hotkeys, global_env_vars, active_hotkeys, heap, config, hooks, logs,
                 nproc, now, environ>>
  /\ UNCHANGED <<script_vars, selector_vars>>

\* A hooked hotkey is pressed while no operation is running.
run_script(i) == AllIdle /\ Press(i)

\* A hooked hotkey is pressed once the operation of the GUI thread has
\* returned; that operation stays on record.
press_after(i) ==
  /\ AllIdle
  /\ i \in 1..Len(hooks)
  /\ nproc < MaxSpawns
  /\ Cardinality(logs) < MaxSpawns
  /\ LET item == hooks[i].item
     IN  /\ call' = [call EXCEPT !["listener"] =
                        [NoCall EXCEPT !.op = "run_script", !.item = item,
                                       !.exists = ~ScriptMissing(item)]]
         /\ pc' = [pc EXCEPT !["listener"] = IF ScriptMissing(item) THEN "idle" ELSE "spawn"]
  /\ trace' = [trace EXCEPT !["listener"] = <<>>]
  /\ k' = [k EXCEPT !["listener"] = 0]
  /\ count' = [count EXCEPT !["listener"] = 0]
  /\ UNCHANGED <<hotkeys, global_env_vars, active_hotkeys, heap, config, hooks, logs,
                 nproc, now, environ>>
  /\ UNCHANGED <<script_vars, selector_vars>>

\* A hooked hotkey is pressed while the GUI thread is inside an operation.
press_during(i) == pc["gui"] \in {"save", "unhook", "hook"} /\ Press(i)

\* Mutant: env is os.environ itself, not a copy of it.
EnvironAfter_aliased(process, env) == env

\* os.environ after lines 352-354: env is a copy, the updates stay in it.
EnvironAfter(process, env) == process

SpawnOutcomes == {"ok", "open_failed", "popen_failed"}

\* Mutant: run_script returns after the spawn without the resync.
AfterSpawn_no_resync(outcome) == "idle"

\* Mutant: the resync runs whether or not the spawn succeeded.
AfterSpawn_always_resync(outcome) == "resync"

\* Where run_script goes after the with block: on to lines 363-365 when the
\* log file was opened and Popen returned, to the except clause otherwise.
AfterSpawn(outcome) == IF outcome = "ok" THEN "resync" ELSE "idle"

\* Lines 347-361: open the log file and spawn the script.  A failure of
\* either is caught and ends run_script.
launch(t) ==
  /\ pc[t] = "spawn"
  /\ \E outcome \in SpawnOutcomes, time \in {now, now + 1} :
       LET item == call[t].item
           log == LogFile(item, time)
           env == LaunchEnv(environ, global_env_vars, heap[item.env_vars])
       IN  /\ logs' = IF outcome = "open_failed" THEN logs ELSE logs \cup {log}
           /\ nproc' = IF outcome = "ok" THEN nproc + 1 ELSE nproc
           /\ call' = [call EXCEPT ![t].spawn = outcome, ![t].log = log,
                                   ![t].spawn_env = IF outcome = "ok" THEN env ELSE EmptyEnv]
           /\ now' = IF outcome = "open_failed" THEN now ELSE time
           /\ environ' = IF outcome = "open_failed" THEN environ
                         ELSE EnvironAfter(environ, env)
           /\ pc' = [pc EXCEPT ![t] = AfterSpawn(outcome)]
  /\ UNCHANGED <<hotkeys, global_env_vars, active_hotkeys, heap, config, hooks,
                 k, count, trace>>
  /\ UNCHANGED <<script_vars, selector_vars>>

\* Lines 363-365: keyboard.unhook_all(), then register_all_hotkeys().
resync(t) ==
  /\ pc[t] = "resync"
  /\ hooks' = <<>>
  /\ trace' = [trace EXCEPT ![t] = Append(@, Event("unhook_all", 0, TRUE))]
  /\ pc' = [pc EXCEPT ![t] = "unhook"]
  /\ UNCHANGED <<hotkeys, global_env_vars, active_hotkeys, heap, config, logs, nproc,
                 now, environ, k, count, call>>
  /\ UNCHANGED <<script_vars, selector_vars>>

(***************************************************************************)
(* The program: one operation at a time.                                   *)
(***************************************************************************)
\* The writes the file system of this specification performs or refuses.
WriteOutcomes == {"ok", "write_failed"}

(***************************************************************************)
(* A holder of a binding writes its env_vars dict in place:                *)
(* manager.hotkeys[i].env_vars[key] = value.                               *)
(***************************************************************************)
env_write(i, key, value) ==
  /\ AllIdle
  /\ i \in 1..Len(hotkeys)
  /\ Begin("gui", [NoCall EXCEPT !.op = "env_write", !.index = i - 1, !.inrange = TRUE])
  /\ heap' = [heap EXCEPT ![hotkeys[i].env_vars] = DictUpdate(@, (key :> value))]
  /\ UNCHANGED <<hotkeys, global_env_vars, active_hotkeys, config, hooks, logs, nproc,
                 now, environ, pc>>
  /\ UNCHANGED <<script_vars, selector_vars>>

\* The registry: startup and the mutating operations.
Next ==
  \/ load_config
  \/ main_register
  \/ \E item \in InputItems : add_hotkey(item)
  \/ \E index \in Indexes, item \in InputItems : update_hotkey(index, item)
  \/ \E index \in Indexes : remove_hotkey(index)
  \/ \E index \in Indexes : duplicate_hotkey(index)
  \/ \E env \in GlobalEnvInputs : set_global_env_vars(env)
  \/ \E t \in Threads : save_config(t, WriteOutcomes)
  \/ \E t \in Threads : register_begin(t)
  \/ \E t \in Threads : register_item(t, HookOutcomes)
  \/ \E t \in Threads : register_end(t)

Spec == Init /\ [][Next]_vars

\* The registry, and a holder of a binding that writes its env_vars in place.
NextAlias ==
  \/ load_config
  \/ main_register
  \/ \E item \in InputItems : add_hotkey(item)
  \/ \E index \in Indexes : remove_hotkey(index)
  \/ \E index \in Indexes : duplicate_hotkey(index)
  \/ \E t \in Threads : save_config(t, WriteOutcomes)
  \/ \E t \in Threads : register_begin(t)
  \/ \E t \in Threads : register_item(t, HookOutcomes)
  \/ \E t \in Threads : register_end(t)
  \/ \E i \in 1..MaxHotkeys : env_write(i, "Z", <<"9">>)

SpecAlias == Init /\ [][NextAlias]_vars

\* The launcher: startup, bindings added and removed, the global env set, and
\* hooked hotkeys pressed.
NextLaunch ==
  \/ load_config
  \/ main_register
  \/ \E item \in InputItems : add_hotkey(item)
  \/ \E index \in Indexes : remove_hotkey(index)
  \/ \E env \in GlobalEnvInputs : set_global_env_vars(env)
  \/ \E t \in Threads : save_config(t, WriteOutcomes)
  \/ \E t \in Threads : register_begin(t)
  \/ \E t \in Threads : register_item(t, HookOutcomes)
  \/ \E t \in Threads : register_end(t)
  \/ \E i \in 1..MaxHotkeys : run_script(i)
  \/ \E t \in Threads : launch(t)
  \/ \E t \in Threads : resync(t)

SpecLaunch == Init /\ [][NextLaunch]_vars

\* The launcher with the last operation of the GUI thread on record when a
\* hooked hotkey is pressed.
NextGlobal ==
  \/ load_config
  \/ main_register
  \/ \E item \in InputItems : add_hotkey(item)
  \/ \E env \in GlobalEnvInputs : set_global_env_vars(env)
  \/ \E t \in Threads : save_config(t, WriteOutcomes)
  \/ \E t \in Threads : register_begin(t)
  \/ \E t \in Threads : register_item(t, HookOutcomes)
  \/ \E t \in Threads : register_end(t)
  \/ \E i \in 1..MaxHotkeys : press_after(i)
  \/ \E t \in Threads : launch(t)
  \/ \E t \in Threads : resync(t)

SpecGlobal == Init /\ [][NextGlobal]_vars

(***************************************************************************)
(* keyboard.unhook_all() raises.  In register_all_hotkeys the call (line   *)
(* 326) is outside any try, so the exception leaves register_all_hotkeys   *)
(* and the operation that called it, unless that is run_script, whose      *)
(* except clause (line 366) catches what lines 364-365 raise.  At line 685 *)
(* nothing catches it and the program ends.  An operation left by an       *)
(* exception stays at "raised": what its caller does next is not followed. *)
(***************************************************************************)
\* The exception of keyboard.unhook_all() reaches the caller of operation op.
Escapes(op) == op # "run_script"

unhook_all_raises(t) ==
  /\ pc[t] \in {"resync", "unhook"}
  /\ trace' = [trace EXCEPT ![t] = Append(@, Event("unhook_all", 0, FALSE))]
  /\ call' = [call EXCEPT ![t].exc = IF Escapes(call[t].op) THEN "Exception" ELSE "none"]
  /\ pc' = [pc EXCEPT ![t] = IF call[t].op = "register_all_hotkeys" THEN "crashed"
                              ELSE IF Escapes(call[t].op) THEN "raised" ELSE "idle"]
  /\ UNCHANGED <<hotkeys, global_env_vars, active_hotkeys, heap, config, hooks, logs,
                 nproc, now, environ, k, count>>
  /\ UNCHANGED <<script_vars, selector_vars>>

\* The launcher with a hook layer whose unhook_all may raise.
NextFault ==
  \/ NextLaunch
  \/ \E t \in Threads : unhook_all_raises(t)

SpecFault == Init /\ [][NextFault]_vars

\* The registry with a hook layer that accepts every hotkey.
NextAccept ==
  \/ load_config
  \/ main_register
  \/ \E item \in InputItems : add_hotkey(item)
  \/ \E index \in Indexes, item \in InputItems : update_hotkey(index, item)
  \/ \E index \in Indexes : remove_hotkey(index)
  \/ \E index \in Indexes : duplicate_hotkey(index)
  \/ \E env \in GlobalEnvInputs : set_global_env_vars(env)
  \/ \E t \in Threads : save_config(t, WriteOutcomes)
  \/ \E t \in Threads : register_begin(t)
  \/ \E t \in Threads : register_item(t, {FALSE})
  \/ \E t \in Threads : register_end(t)

SpecAccept == Init /\ [][NextAccept]_vars

\* The registry on a file system where open() may fail too, and a hook layer
\* that accepts every hotkey.
NextIO ==
  \/ load_config
  \/ main_register
  \/ \E item \in InputItems : add_hotkey(item)
  \/ \E index \in Indexes : remove_hotkey(index)
  \/ \E env \in GlobalEnvInputs : set_global_env_vars(env)
  \/ \E t \in Threads : save_config(t, SaveOutcomes)
  \/ \E t \in Threads : register_begin(t)
  \/ \E t \in Threads : register_item(t, {FALSE})
  \/ \E t \in Threads : register_end(t)

SpecIO == Init /\ [][NextIO]_vars

\* The launcher with hotkeys pressed at any point of a GUI operation, and a
\* hook layer that accepts every hotkey.
NextConc ==
  \/ load_config
  \/ main_register
  \/ \E item \in InputItems : add_hotkey(item)
  \/ \E index \in Indexes : remove_hotkey(index)
  \/ \E t \in Threads : save_config(t, {"ok"})
  \/ \E t \in Threads : register_begin(t)
  \/ \E t \in Threads : register_item(t, {FALSE})
  \/ \E t \in Threads : register_end(t)
  \/ \E i \in 1..MaxHotkeys : run_script(i)
  \/ \E i \in 1..MaxHotkeys : press_during(i)
  \/ \E t \in Threads : launch(t)
  \/ \E t \in Threads : resync(t)

SpecConc == Init /\ [][NextConc]_vars

(***************************************************************************)
(* The edit dialog of a binding.  MainWindow.edit_hotkey hands the         *)
(* manager's own HotkeyItem to HotkeyDialog, which keeps it as             *)
(* self.hotkey_item; the dialog is modal, so the main window starts no     *)
(* other operation while it is open.  The GUI thread is at "dialog" while  *)
(* the dialog is open and at "recording" while self.recording is set; its  *)
(* call record holds the row, the texts of the three line edits (item),    *)
(* self.original_hotkey and the env_vars of the binding when the dialog    *)
(* opened (env).  The user closes the dialog when no recording is in       *)
(* progress, and acts when no key event is being handled.                  *)
(***************************************************************************)
\* "Press hotkey combination..."
Placeholder == <<"P">>

\* What the user leaves in the env-var table when saving the sub-dialog.
DialogEnvInputs == {EmptyEnv, EnvA}

\* The script and name the line edits hold when the dialog is accepted: the
\* binding's own, or what the user browsed to and typed.
DialogTexts(item) ==
  { [script_path |-> item.script_path, name |-> item.name],
    [script_path |-> PathDR, name |-> EmptyStr] }

\* The object old is now the object new: every reference to it sees the change.
Rebound(x, old, new) == IF x = old THEN new ELSE x

\* The heap once the dicts no binding holds are collected.
Collected(h, items) ==
  [a \in {items[i].env_vars : i \in 1..Len(items)} |-> h[a]]

edit_hotkey(row) ==
  /\ AllIdle
  /\ IF InRange(row, Len(hotkeys))
     THEN /\ Begin("gui", [NoCall EXCEPT !.op = "edit_hotkey", !.index = row,
                                         !.inrange = TRUE,
                                         !.item = [hotkeys[row + 1] EXCEPT !.env_vars = 0],
                                         !.env = heap[hotkeys[row + 1].env_vars]])
          /\ pc' = [pc EXCEPT !["gui"] = "dialog"]
     ELSE /\ Begin("gui", [NoCall EXCEPT !.op = "edit_hotkey", !.index = row])
          /\ UNCHANGED pc
  /\ UNCHANGED <<hotkeys, global_env_vars, active_hotkeys, heap, config, hooks, logs,
                 nproc, now, environ>>
  /\ UNCHANGED <<script_vars, selector_vars>>

\* HotkeyDialog.edit_env_vars: the sub-dialog is saved (accepted) with
\* env_vars in its table, or cancelled.
edit_env_vars(env_vars, accepted) ==
  /\ pc["gui"] = "dialog"
  /\ pc["listener"] = "idle"
  /\ IF accepted
     THEN LET p == call["gui"].index + 1
              old == hotkeys[p]
              a == NewAddr(heap)
              new == [old EXCEPT !.env_vars = a]
              items == [hotkeys EXCEPT ![p] = new]
          IN  /\ hotkeys' = items
              /\ heap' = Collected(Store(heap, a, env_vars), items)
              /\ hooks' = [h \in 1..Len(hooks) |->
                             [hooks[h] EXCEPT !.item = Rebound(@, old, new)]]
              /\ active_hotkeys' = [x \in DOMAIN active_hotkeys |->
                                      Rebound(active_hotkeys[x], old, new)]
     ELSE UNCHANGED <<hotkeys, heap, hooks, active_hotkeys>>
  /\ UNCHANGED <<global_env_vars, config, logs, nproc, now, environ, pc, k, count,
                 call, trace>>
  /\ UNCHANGED <<script_vars, selector_vars>>

\* HotkeyDialog.start_recording, when no recording is in progress.
start_recording ==
  /\ pc["gui"] = "dialog"
  /\ pc["listener"] = "idle"
  /\ call' = [call EXCEPT !["gui"].original_hotkey = call["gui"].item.hotkey,
                          !["gui"].item.hotkey = Placeholder]
  /\ hooks' = <<>>
  /\ pc' = [pc EXCEPT !["gui"] = "recording"]
  /\ UNCHANGED <<hotkeys, global_env_vars, active_hotkeys, heap, config, logs, nproc,
                 now, environ, k, count, trace>>
  /\ UNCHANGED <<script_vars, selector_vars>>

\* What a key-down event turns out to be while recording: the Escape key, a
\* key whose combination keyboard.read_hotkey() returns, or a key at which
\* keyboard.read_hotkey() raises.
KeyEvents == {"escape", "hotkey", "error"}

\* The combinations keyboard.read_hotkey() returns.
Combinations == {KeyT, KeyR}

\* Where on_key_event continues once the recording is over.
AfterRecording(event) == IF event = "escape" THEN "idle" ELSE "unhook"

\* HotkeyDialog.on_key_event for a key-down event during a recording, called
\* by the keyboard library on its listener thread.
on_key_event(event, hotkey) ==
  /\ pc["gui"] = "recording"
  /\ pc["listener"] = "idle"
  /\ call' = [call EXCEPT
                !["listener"] = [NoCall EXCEPT !.op = "on_key_event"],
                !["gui"].item.hotkey = IF event = "hotkey" THEN hotkey
                                       ELSE call["gui"].original_hotkey]
  /\ trace' = [trace EXCEPT !["listener"] = <<>>]
  /\ k' = [k EXCEPT !["listener"] = 0]
  /\ count' = [count EXCEPT !["listener"] = 0]
  /\ pc' = [pc EXCEPT !["gui"] = "dialog", !["listener"] = AfterRecording(event)]
  /\ UNCHANGED <<hotkeys, global_env_vars, active_hotkeys, heap, config, hooks, logs,
                 nproc, now, environ>>
  /\ UNCHANGED <<script_vars, selector_vars>>

\* The dialog is accepted: update_hotkey(row, dialog.get_hotkey_item()).
dialog_accept ==
  /\ pc["gui"] = "dialog"
  /\ pc["listener"] = "idle"
  /\ \E texts \in DialogTexts(call["gui"].item) :
       LET p == call["gui"].index + 1
       IN  hotkeys' = [hotkeys EXCEPT ![p] =
                         HotkeyItem(call["gui"].item.hotkey, texts.script_path,
                                    texts.name, hotkeys[p].env_vars)]
  /\ Begin("gui", [NoCall EXCEPT !.op = "update_hotkey", !.index = call["gui"].index,
                                 !.inrange = TRUE])
  /\ pc' = [pc EXCEPT !["gui"] = AfterMutation("update_hotkey")]
  /\ UNCHANGED <<global_env_vars, active_hotkeys, heap, config, hooks, logs, nproc,
                 now, environ>>
  /\ UNCHANGED <<script_vars, selector_vars>>

\* The dialog is cancelled: edit_hotkey returns.
dialog_reject ==
  /\ pc["gui"] = "dialog"
  /\ pc["listener"] = "idle"
  /\ pc' = [pc EXCEPT !["gui"] = "idle"]
  /\ UNCHANGED <<hotkeys, global_env_vars, active_hotkeys, heap, config, hooks, logs,
                 nproc, now, environ, k, count, call, trace>>
  /\ UNCHANGED <<script_vars, selector_vars>>

\* The main window with its edit dialog over the bindings of the config file,
\* on a file system whose writes succeed and a hook layer that accepts every
\* hotkey.
NextDialog ==
  \/ load_config
  \/ main_register
  \/ \E row \in Indexes : edit_hotkey(row)
  \/ \E env \in DialogEnvInputs, accepted \in BOOLEAN : edit_env_vars(env, accepted)
  \/ start_recording
  \/ \E event \in KeyEvents, hotkey \in Combinations : on_key_event(event, hotkey)
  \/ dialog_accept
  \/ dialog_reject
  \/ \E t \in Threads : save_config(t, {"ok"})
  \/ \E t \in Threads : register_begin(t)
  \/ \E t \in Threads : register_item(t, {FALSE})
  \/ \E t \in Threads : register_end(t)

SpecDialog == Init /\ [][NextDialog]_vars

(***************************************************************************)
(* The transcription scripts, transcribe.py and copy-transcribe-paste.py.  *)
(* Every invocation is a process of its own; the processes share the lock  *)
(* file, the output file and (copy-transcribe-paste.py) the selected-text  *)
(* file, and one step is one call on a file.  is_recording,                *)
(* set_recording_state, record_audio and transcribe_audio are the same     *)
(* code in both scripts; the two main functions differ.  The API keys are  *)
(* set.                                                                    *)
(***************************************************************************)
\* Invocation p moves to position to.
Goto(p, to) == proc' = [proc EXCEPT ![p].pc = to]

\* transcribe.py main, lines 116-122: is_recording() decides between
\* stopping and recording.
transcribe_main(p) ==
  /\ proc[p].pc = "idle"
  /\ proc' = [proc EXCEPT ![p].script = "transcribe",
                          ![p].pc = IF lock # 0 THEN "stop_exists" ELSE "recording_exists"]
  /\ UNCHANGED <<manager_vars, selector_vars, lock, output, selected>>

\* copy-transcribe-paste.py main, lines 241-242 and 274-276.
copy_main(p) ==
  /\ proc[p].pc = "idle"
  /\ proc' = [proc EXCEPT ![p].script = "copy",
                          ![p].pc = IF lock # 0 THEN "stop_exists" ELSE "save_selected"]
  /\ UNCHANGED <<manager_vars, selector_vars, lock, output, selected>>

\* save_selected_text and lines 278-282: the clipboard holds text or not.
save_selected_text(p) ==
  /\ proc[p].pc = "save_selected"
  /\ \E text \in BOOLEAN :
       /\ selected' = (selected \/ text)
       /\ Goto(p, IF text THEN "recording_exists" ELSE "done")
  /\ UNCHANGED <<manager_vars, selector_vars, lock, output>>

\* Where main continues after set_recording_state("stop").
AfterStop(script) == IF script = "copy" THEN "selected_exists" ELSE "done"

\* set_recording_state("stop"): LOCK_FILE.exists()
stop_exists(p) ==
  /\ proc[p].pc = "stop_exists"
  /\ Goto(p, IF lock # 0 THEN "stop_unlink" ELSE AfterStop(proc[p].script))
  /\ UNCHANGED <<manager_vars, selector_vars, lock, output, selected>>

\* set_recording_state("stop"): LOCK_FILE.unlink(), which raises when the
\* file is gone; nothing in main catches that here.
stop_unlink(p) ==
  /\ proc[p].pc = "stop_unlink"
  /\ lock' = 0
  /\ proc' = [proc EXCEPT ![p].stopped = lock,
                          ![p].pc = IF lock # 0 THEN AfterStop(proc[p].script)
                                    ELSE "crashed"]
  /\ UNCHANGED <<manager_vars, selector_vars, output, selected>>

\* set_recording_state("recording"): not LOCK_FILE.exists()
recording_exists(p) ==
  /\ proc[p].pc = "recording_exists"
  /\ Goto(p, IF lock = 0 THEN "recording_touch" ELSE "loop")
  /\ UNCHANGED <<manager_vars, selector_vars, lock, output, selected>>

\* The lock file after LOCK_FILE.touch() by invocation p.
Touched(l, p) == IF l = 0 THEN p ELSE l

\* set_recording_state("recording"): LOCK_FILE.touch(); the stream is opened.
recording_touch(p) ==
  /\ proc[p].pc = "recording_touch"
  /\ lock' = Touched(lock, p)
  /\ Goto(p, "loop")
  /\ UNCHANGED <<manager_vars, selector_vars, output, selected>>

\* Where record_audio's caller continues: transcribe.py's main transcribes
\* when record_audio returned True, copy-transcribe-paste.py's main returns.
AfterRecord(script, saved) ==
  IF script = "transcribe" /\ saved THEN "transcribe" ELSE "done"

\* record_audio, one turn of `while is_recording()`: a chunk is read, or the
\* loop is left and the stream closed.
record_audio_loop(p) ==
  /\ proc[p].pc = "loop"
  /\ proc' = [proc EXCEPT ![p].frames = (@ \/ lock # 0),
                          ![p].pc = IF lock # 0 THEN "loop"
                                    ELSE IF proc[p].frames THEN "wave_open"
                                    ELSE AfterRecord(proc[p].script, FALSE)]
  /\ UNCHANGED <<manager_vars, selector_vars, lock, output, selected>>

\* record_audio: wave.open(OUTPUT_FILE, 'wb') creates or truncates the file.
wave_open(p) ==
  /\ proc[p].pc = "wave_open"
  /\ output' = Wave(p, FALSE)
  /\ Goto(p, "wave_close")
  /\ UNCHANGED <<manager_vars, selector_vars, lock, selected>>

\* record_audio: the frames are written and the file is closed.
wave_close(p) ==
  /\ proc[p].pc = "wave_close"
  /\ output' = Wave(p, TRUE)
  /\ Goto(p, AfterRecord(proc[p].script, TRUE))
  /\ UNCHANGED <<manager_vars, selector_vars, lock, selected>>

\* copy-transcribe-paste.py main, lines 246-248.
selected_exists(p) ==
  /\ proc[p].pc = "selected_exists"
  /\ Goto(p, IF selected THEN "transcribe" ELSE "done")
  /\ UNCHANGED <<manager_vars, selector_vars, lock, output, selected>>

\* Where main continues after transcribe_audio returned (ok) or raised.
AfterTranscribe(script, ok) ==
  IF ~ok THEN "except_exists"
  ELSE IF script = "copy" THEN "respond" ELSE "cleanup_exists"

\* transcribe_audio: OUTPUT_FILE is opened, which raises when there is no
\* such file, and sent to the speech-to-text API, which answers or raises.
transcribe_audio(p) ==
  /\ proc[p].pc = "transcribe"
  /\ \E ok \in BOOLEAN :
       proc' = [proc EXCEPT ![p].heard = output,
                            ![p].pc = AfterTranscribe(proc[p].script, ok /\ output.exists)]
  /\ UNCHANGED <<manager_vars, selector_vars, lock, output, selected>>

\* copy-transcribe-paste.py main, lines 254-260: the selected text is read,
\* which raises when the file is gone, and the model answers or raises.
respond(p) ==
  /\ proc[p].pc = "respond"
  /\ \E ok \in BOOLEAN : Goto(p, IF ok /\ selected THEN "selected_cleanup" ELSE "except_exists")
  /\ UNCHANGED <<manager_vars, selector_vars, lock, output, selected>>

\* copy-transcribe-paste.py main, line 262.
selected_cleanup(p) ==
  /\ proc[p].pc = "selected_cleanup"
  /\ Goto(p, IF selected THEN "selected_unlink" ELSE "cleanup_exists")
  /\ UNCHANGED <<manager_vars, selector_vars, lock, output, selected>>

\* copy-transcribe-paste.py main, line 263.
selected_unlink(p) ==
  /\ proc[p].pc = "selected_unlink"
  /\ selected' = FALSE
  /\ Goto(p, IF selected THEN "cleanup_exists" ELSE "except_exists")
  /\ UNCHANGED <<manager_vars, selector_vars, lock, output>>

\* main, the end of the try block: if LOCK_FILE.exists()
cleanup_exists(p) ==
  /\ proc[p].pc = "cleanup_exists"
  /\ Goto(p, IF lock # 0 THEN "cleanup_unlink" ELSE "done")
  /\ UNCHANGED <<manager_vars, selector_vars, lock, output, selected>>

\* main, the end of the try block: LOCK_FILE.unlink(); `except Exception`
\* catches what it raises.
cleanup_unlink(p) ==
  /\ proc[p].pc = "cleanup_unlink"
  /\ lock' = 0
  /\ Goto(p, IF lock # 0 THEN "done" ELSE "except_exists")
  /\ UNCHANGED <<manager_vars, selector_vars, output, selected>>

\* main, the except block: if LOCK_FILE.exists()
except_exists(p) ==
  /\ proc[p].pc = "except_exists"
  /\ Goto(p, IF lock # 0 THEN "except_unlink" ELSE "done")
  /\ UNCHANGED <<manager_vars, selector_vars, lock, output, selected>>

\* main, the except block: LOCK_FILE.unlink(); nothing catches what it raises.
except_unlink(p) ==
  /\ proc[p].pc = "except_unlink"
  /\ lock' = 0
  /\ Goto(p, IF lock # 0 THEN "done" ELSE "crashed")
  /\ UNCHANGED <<manager_vars, selector_vars, output, selected>>

\* The files a session of a script starts with: no lock, and no recording
\* or the recording of an earlier session.
InitScript ==
  /\ ManagerAbsent
  /\ SelectorAbsent
  /\ lock = 0
  /\ output \in {NoWave, Wave(0, TRUE)}
  /\ selected = FALSE
  /\ proc = [p \in Invocations |-> NotStarted]

\* Invocations of transcribe.py.
NextTranscribe ==
  \/ \E p \in Invocations : transcribe_main(p)
  \/ \E p \in Invocations : stop_exists(p)
  \/ \E p \in Invocations : stop_unlink(p)
  \/ \E p \in Invocations : recording_exists(p)
  \/ \E p \in Invocations : recording_touch(p)
  \/ \E p \in Invocations : record_audio_loop(p)
  \/ \E p \in Invocations : wave_open(p)
  \/ \E p \in Invocations : wave_close(p)
  \/ \E p \in Invocations : transcribe_audio(p)
  \/ \E p \in Invocations : cleanup_exists(p)
  \/ \E p \in Invocations : cleanup_unlink(p)
  \/ \E p \in Invocations : except_exists(p)
  \/ \E p \in Invocations : except_unlink(p)

SpecTranscribe == InitScript /\ [][NextTranscribe]_vars

\* Invocations of copy-transcribe-paste.py.
NextCopy ==
  \/ \E p \in Invocations : copy_main(p)
  \/ \E p \in Invocations : save_selected_text(p)
  \/ \E p \in Invocations : stop_exists(p)
  \/ \E p \in Invocations : stop_unlink(p)
  \/ \E p \in Invocations : recording_exists(p)
  \/ \E p \in Invocations : recording_touch(p)
  \/ \E p \in Invocations : record_audio_loop(p)
  \/ \E p \in Invocations : wave_open(p)
  \/ \E p \in Invocations : wave_close(p)
  \/ \E p \in Invocations : selected_exists(p)
  \/ \E p \in Invocations : transcribe_audio(p)
  \/ \E p \in Invocations : respond(p)
  \/ \E p \in Invocations : selected_cleanup(p)
  \/ \E p \in Invocations : selected_unlink(p)
  \/ \E p \in Invocations : cleanup_exists(p)
  \/ \E p \in Invocations : cleanup_unlink(p)
  \/ \E p \in Invocations : except_exists(p)
  \/ \E p \in Invocations : except_unlink(p)

SpecCopy == InitScript /\ [][NextCopy]_vars

(***************************************************************************)
(* screenshot.py, DestinationSelector: the dialog loads its list when it   *)
(* is constructed and changes it in add_destination and confirm_remove,    *)
(* each of which saves it.  The dialogs are modal: one handler at a time.  *)
(* save_destinations catches nothing, so a failed write leaves the handler *)
(* by an exception ("raised"), which ends the program.                     *)
(***************************************************************************)
\* str(self.default_dir)
DefaultDir == <<"s">>

\* What QFileDialog.getExistingDirectory returns: "" when cancelled.
Folders == {EmptyStr, DefaultDir, <<"a">>, <<"b">>, <<"c">>, <<"d">>}

\* json.dump(self.destinations, f)
DestinationsJson(list) == JList([i \in 1..Len(list) |-> JStr(list[i])])

\* The list json.load returns for a file save_destinations wrote.
DestinationsFromJson(j) == [i \in 1..Len(j.items) |-> j.items[i].v]

\* load_destinations: the default directory alone when there is no file or
\* reading it fails.
load_destinations(file) ==
  IF file.kind = "json" THEN DestinationsFromJson(file.json) ELSE <<DefaultDir>>

\* The config file is one an earlier run has left: none, one a failed write
\* cut off, or a list save_destinations wrote.
SelectorFiles ==
  {FileAbsent, FileGarbage} \cup
  {FileJson(DestinationsJson(list)) :
     list \in {<<DefaultDir>>, <<DefaultDir, <<"a">>>>, <<DefaultDir, <<"a">>, <<"b">>>>}}

InitSelector ==
  /\ ManagerAbsent
  /\ ScriptsAbsent
  /\ destinations = <<>>
  /\ destinations_file \in SelectorFiles
  /\ selector = "init"

\* DestinationSelector.__init__
selector_init ==
  /\ selector = "init"
  /\ destinations' = load_destinations(destinations_file)
  /\ selector' = "open"
  /\ UNCHANGED <<manager_vars, script_vars, destinations_file>>

Contains(list, x) == \E i \in 1..Len(list) : list[i] = x

\* Mutant: any folder chosen is appended.
Addable_any(folder, list) == folder # EmptyStr

\* add_destination: folder and folder not in self.destinations
Addable(folder, list) == folder # EmptyStr /\ ~Contains(list, folder)

\* save_destinations from a handler: the write succeeds, or raises.
SaveDestinations(list) ==
  \E outcome \in SaveOutcomes :
    /\ destinations_file' = Written(outcome, destinations_file,
                                    FileJson(DestinationsJson(list)))
    /\ selector' = IF outcome = "ok" THEN "open" ELSE "raised"

add_destination(folder) ==
  /\ selector = "open"
  /\ IF Addable(folder, destinations)
     THEN /\ destinations' = Append(destinations, folder)
          /\ SaveDestinations(Append(destinations, folder))
     ELSE UNCHANGED selector_vars
  /\ UNCHANGED <<manager_vars, script_vars>>

\* remove_destination: returns at once for a list of one entry, else shows
\* the dialog with a button for every entry but the default.
remove_destination ==
  /\ selector = "open"
  /\ selector' = IF Len(destinations) <= 1 THEN "open" ELSE "remove_dialog"
  /\ UNCHANGED <<manager_vars, script_vars, destinations, destinations_file>>

\* list.remove(x): the first occurrence goes.
ListRemove(list, x) ==
  DelAt(list, CHOOSE i \in 1..Len(list) :
                /\ list[i] = x
                /\ \A j \in 1..(i - 1) : list[j] # x)

\* A button of the remove dialog is clicked.
confirm_remove(destination) ==
  /\ selector = "remove_dialog"
  /\ Contains(destinations, destination)
  /\ destination # DefaultDir
  /\ destinations' = ListRemove(destinations, destination)
  /\ SaveDestinations(ListRemove(destinations, destination))
  /\ UNCHANGED <<manager_vars, script_vars>>

\* The remove dialog is cancelled.
remove_cancel ==
  /\ selector = "remove_dialog"
  /\ selector' = "open"
  /\ UNCHANGED <<manager_vars, script_vars, destinations, destinations_file>>

NextSelector ==
  \/ selector_init
  \/ \E folder \in Folders : add_destination(folder)
  \/ remove_destination
  \/ \E destination \in Folders : confirm_remove(destination)
  \/ remove_cancel

SpecSelector == InitSelector /\ [][NextSelector]_vars

(***************************************************************************)
(* The claims.                                                             *)
(***************************************************************************)
ListOps == {"add_hotkey", "update_hotkey", "remove_hotkey", "duplicate_hotkey"}
MutatingOps == ListOps \cup {"set_global_env_vars"}

\* Thread t has returned from an operation that went through its body.
Returned(t, ops) == pc[t] = "idle" /\ call[t].op \in ops /\ call[t].inrange

\* The operation's save_config wrote the file.
Saved(t) == trace[t] # <<>> /\ trace[t][1].e = "save" /\ trace[t][1].ok

\* Reloading the config file yields the in-memory state.
ReloadsToMemory ==
  LET r == LoadResult(config, TRUE)
  IN  /\ r.exc = "none"
      /\ r.hotkeys = Views(hotkeys, heap)
      /\ r.global_env_vars = global_env_vars

\* C1: after add_hotkey, update_hotkey, remove_hotkey or duplicate_hotkey has
\* returned, load_config on the file its save_config wrote yields the
\* in-memory binding sequence and global env map.
C1_RoundTrip == Returned("gui", ListOps) /\ Saved("gui") => ReloadsToMemory

C1_Witness ==
  /\ Returned("gui", {"duplicate_hotkey"})
  /\ Saved("gui")
  /\ Len(hotkeys) = 2
  /\ heap[hotkeys[2].env_vars] = EnvAB
  /\ global_env_vars = EnvA

\* The positions of the active bindings, in order.
ActivePositions ==
  SelectSeq([i \in 1..Len(hotkeys) |-> i],
            LAMBDA i : hotkeys[i].hotkey # EmptyStr /\ hotkeys[i].script_path # EmptyStr)

\* The trace of an operation that saved and then registered from scratch:
\* save_config, unhook_all, then keyboard.add_hotkey for each active binding.
SavedThenRegistered(tr) ==
  /\ Len(tr) = 2 + Len(ActivePositions)
  /\ tr[1].e = "save"
  /\ tr[2].e = "unhook_all"
  /\ \A i \in 1..Len(ActivePositions) :
       tr[2 + i].e = "add_hotkey" /\ tr[2 + i].idx = ActivePositions[i]

\* C2, as stated: every mutating entry point, set_global_env_vars included,
\* persists and then re-registers from scratch.
C2_Original == Returned("gui", MutatingOps) => SavedThenRegistered(trace["gui"])

\* C2, amended: add, update, remove and duplicate persist the whole state and
\* then re-register from scratch; set_global_env_vars persists the whole state
\* and makes no call to the hook layer.
C2_Amended ==
  /\ Returned("gui", ListOps) => SavedThenRegistered(trace["gui"])
  /\ Returned("gui", {"set_global_env_vars"}) =>
       /\ Len(trace["gui"]) = 1
       /\ trace["gui"][1].e = "save"
  /\ Returned("gui", MutatingOps) /\ Saved("gui") =>
       config = FileJson(ConfigJson(Views(hotkeys, heap), global_env_vars))

C2_Witness ==
  /\ Returned("gui", {"set_global_env_vars"})
  /\ Saved("gui")
  /\ global_env_vars = EnvA
  /\ Len(hooks) = 2

\* C3: when add, update, remove or duplicate is at the hook layer (about to
\* unhook, or hooking), save_config has already run, nothing but it precedes
\* the hook layer calls, and the file it wrote reloads to the in-memory state.
C3_SaveBeforeRegister ==
  \A t \in Threads :
    pc[t] \in {"unhook", "hook"} /\ call[t].op \in ListOps =>
      /\ trace[t] # <<>>
      /\ trace[t][1].e = "save"
      /\ \A i \in 2..Len(trace[t]) : trace[t][i].e # "save"
      /\ Saved(t) => ReloadsToMemory

C3_Witness ==
  /\ pc["gui"] = "unhook"
  /\ call["gui"].op = "remove_hotkey"
  /\ Saved("gui")
  /\ Len(hotkeys) = 1
  /\ Len(hooks) = 2

\* The binding at position i has a hook whose callback launches it.
Hooked(i) == \E h \in 1..Len(hooks) : hooks[h].item = hotkeys[i]
\* The registration of thread t called keyboard.add_hotkey for position i.
Attempted(t, i) == \E j \in 1..Len(trace[t]) : trace[t][j].e = "add_hotkey" /\ trace[t][j].idx = i
Rejected(t, i) ==
  \E j \in 1..Len(trace[t]) :
    trace[t][j].e = "add_hotkey" /\ trace[t][j].idx = i /\ ~trace[t][j].ok

\* C4: register_all_hotkeys hooks a binding only if its hotkey and its
\* script_path are both non-empty; it skips the others, and every active
\* binding it has passed was handed to keyboard.add_hotkey and, unless that
\* raised, is hooked.
C4_OnlyActiveHooked ==
  /\ \A h \in 1..Len(hooks) :
       hooks[h].item.hotkey # EmptyStr /\ hooks[h].item.script_path # EmptyStr
  /\ \A t \in Threads : \A i \in 1..Len(hotkeys) :
       i < k[t] =>
         IF hotkeys[i].hotkey # EmptyStr /\ hotkeys[i].script_path # EmptyStr
         THEN Attempted(t, i) /\ (Rejected(t, i) \/ Hooked(i))
         ELSE ~Attempted(t, i) /\ ~Hooked(i)

C4_Witness ==
  /\ pc["gui"] = "idle"
  /\ k["gui"] = 3
  /\ hotkeys[1].script_path = EmptyStr
  /\ hotkeys[1].hotkey # EmptyStr
  /\ Len(hooks) = 1
  /\ hooks[1].item = hotkeys[2]

\* How many keyboard.add_hotkey calls of thread t's registration succeeded.
Successes(t) ==
  Cardinality({j \in 1..Len(trace[t]) : trace[t][j].e = "add_hotkey" /\ trace[t][j].ok})

\* C5: when register_all_hotkeys is over, a binding whose hook installation
\* was rejected is not hooked, every other active binding is, and the count
\* it reports is the number of installations that succeeded.
C5_BestEffort ==
  \A t \in Threads :
    pc[t] = "idle" /\ k[t] = Len(hotkeys) + 1 =>
      /\ \A i \in 1..Len(hotkeys) :
           IF Rejected(t, i) THEN ~Hooked(i)
           ELSE (hotkeys[i].hotkey # EmptyStr /\ hotkeys[i].script_path # EmptyStr) => Hooked(i)
      /\ count[t] = Successes(t)
      /\ count[t] = Len(hooks)

C5_Witness ==
  /\ pc["gui"] = "idle"
  /\ k["gui"] = 3
  /\ Rejected("gui", 1)
  /\ Hooked(2)
  /\ count["gui"] = 1

\* C6: the environment run_script passes to the spawned script has exactly
\* the keys of the process environment, the global env map and the binding's
\* env map, and maps each key to the binding's value if the binding has it,
\* else the global value if the global map has it, else the process value.
C6_EnvLayering ==
  \A t \in Threads :
    pc[t] = "resync" /\ call[t].op = "run_script" /\ call[t].spawn = "ok" =>
      LET E == call[t].spawn_env
          B == heap[call[t].item.env_vars]
          G == global_env_vars
          P == environ
      IN  /\ DOMAIN E = DOMAIN P \cup DOMAIN G \cup DOMAIN B
          /\ \A key \in DOMAIN E :
               E[key] = IF key \in DOMAIN B THEN B[key]
                        ELSE IF key \in DOMAIN G THEN G[key]
                        ELSE P[key]

C6_Witness ==
  /\ pc["listener"] = "resync"
  /\ call["listener"].spawn = "ok"
  /\ global_env_vars = EnvA
  /\ heap[call["listener"].item.env_vars] = EnvAB
  /\ call["listener"].spawn_env =
       ("A" :> <<"2">> @@ "B" :> <<"3">> @@ "H" :> <<"g">> @@ "U" :> <<"u">>)

\* C7: update_hotkey, remove_hotkey and duplicate_hotkey called with an index
\* that is negative or at least len(hotkeys) change neither the bindings, nor
\* the global env map, nor the config file, nor the hooks, and return at once;
\* duplicate_hotkey returns -1.
C7_OutOfRangeNoEffect ==
  [][ /\ AllIdle
      /\ call'["gui"].op \in {"update_hotkey", "remove_hotkey", "duplicate_hotkey"}
      /\ ~(0 <= call'["gui"].index /\ call'["gui"].index < Len(hotkeys))
      => /\ UNCHANGED <<hotkeys, heap, global_env_vars, config, hooks, active_hotkeys,
                        logs, nproc>>
         /\ pc' = pc
         /\ trace'["gui"] = <<>>
         /\ call'["gui"].op = "duplicate_hotkey" => call'["gui"].ret = RetInt(-1)
    ]_vars

C7_Witness ==
  /\ AllIdle
  /\ call["gui"].op = "duplicate_hotkey"
  /\ call["gui"].index = -1
  /\ call["gui"].ret = RetInt(-1)
  /\ Len(hotkeys) = 2
  /\ Len(hooks) = 1

\* C8: duplicate_hotkey with an index in range appends one binding with the
\* original's hotkey and script_path, its name followed by " (Copy)", and an
\* env map with the original's contents in a dict no binding of the list
\* holds; it returns the previous length; and a write to one binding's env
\* map changes no other binding's env map.
C8_DuplicateIndependent ==
  [][ /\ ( /\ AllIdle
           /\ call'["gui"].op = "duplicate_hotkey"
           /\ 0 <= call'["gui"].index /\ call'["gui"].index < Len(hotkeys) )
         => LET n == Len(hotkeys)
                original == hotkeys[call'["gui"].index + 1]
                copy == hotkeys'[n + 1]
            IN  /\ Len(hotkeys') = n + 1
                /\ SubSeq(hotkeys', 1, n) = hotkeys
                /\ copy.name = original.name \o CopySuffix
                /\ copy.hotkey = original.hotkey
                /\ copy.script_path = original.script_path
                /\ heap'[copy.env_vars] = heap[original.env_vars]
                /\ \A i \in 1..n : hotkeys'[i].env_vars # copy.env_vars
                /\ \A i \in 1..n : heap'[hotkeys'[i].env_vars] = heap[hotkeys[i].env_vars]
      /\ ( /\ call["gui"].op = "duplicate_hotkey"
           /\ pc["gui"] # "idle" )
         => /\ Views(hotkeys', heap') = Views(hotkeys, heap)
            /\ pc'["gui"] = "idle" => call'["gui"].ret = RetInt(Len(hotkeys) - 1)
      /\ ( /\ AllIdle
           /\ call'["gui"].op = "env_write" )
         => /\ hotkeys' = hotkeys
            /\ \A i \in 1..Len(hotkeys) :
                 i # call'["gui"].index + 1 =>
                   heap'[hotkeys[i].env_vars] = heap[hotkeys[i].env_vars]
    ]_vars

C8_Witness ==
  /\ AllIdle
  /\ call["gui"].op = "env_write"
  /\ call["gui"].index = 1
  /\ Len(hotkeys) = 2
  /\ hotkeys[2].name = hotkeys[1].name \o CopySuffix
  /\ heap[hotkeys[1].env_vars] = EnvAB
  /\ heap[hotkeys[2].env_vars] = DictUpdate(EnvAB, ("Z" :> <<"9">>))

\* The config files that do not hold a record with a list of records under
\* "hotkeys".
MalformedFiles ==
  { FileGarbage,
    FileJson(JList(<<>>)),
    FileJson(JObj("hotkeys" :> JList(<<JStr(KeyT)>>))),
    FileJson(JObj("hotkeys" :> JNum(5))) }

\* C9: load_config never fails its caller, and on an absent or a malformed
\* config file it leaves the empty state.
C9_LoadNeverFails ==
  /\ pc["gui"] # "crashed"
  /\ call["gui"].op = "load_config" => call["gui"].exc = "none"
  /\ pc["gui"] = "loaded" /\ config \in MalformedFiles \cup {FileAbsent} =>
       hotkeys = <<>> /\ global_env_vars = EmptyEnv

\* C10: run_script on a binding whose script does not exist spawns nothing,
\* creates no log file, calls nothing of the hook layer, changes nothing of
\* the registry and returns at once.
C10_MissingScriptNoEffect ==
  [][ /\ AllIdle
      /\ call'["listener"].op = "run_script"
      /\ call'["listener"].item.script_path \notin ExistingScripts
      => /\ UNCHANGED <<hotkeys, heap, global_env_vars, config, hooks, active_hotkeys,
                        logs, nproc>>
         /\ pc' = pc
         /\ trace'["listener"] = <<>>
         /\ call'["listener"].spawn = "none"
         /\ call'["listener"].exc = "none"
    ]_vars

C10_Witness ==
  /\ AllIdle
  /\ call["listener"].op = "run_script"
  /\ call["listener"].item.script_path = PathGone
  /\ ~call["listener"].exists
  /\ Len(hooks) = 2
  /\ nproc = 0
  /\ logs = {}

\* The active positions whose installation thread t's registration did not
\* see rejected.
HookedPositions(t) == SelectSeq(ActivePositions, LAMBDA i : ~Rejected(t, i))

\* C11: run_script calls the hook layer only after the spawn has succeeded,
\* and when it returns after a successful spawn it has unhooked everything and
\* gone through a whole register_all_hotkeys: one installation attempt per
\* active binding of the current list, in order, and the installed hooks are
\* exactly those of the attempts that were not rejected, so one per active
\* binding when none was.
C11_ResyncAfterSpawn ==
  \A t \in Threads :
    call[t].op = "run_script" =>
      /\ trace[t] # <<>> =>
           /\ call[t].spawn = "ok"
           /\ nproc > 0
           /\ call[t].log \in logs
           /\ trace[t][1].e = "unhook_all"
      /\ pc[t] = "idle" /\ call[t].spawn = "ok" =>
           /\ Len(trace[t]) = 2 + Len(ActivePositions)
           /\ trace[t][2].e = "unhook_all"
           /\ \A i \in 1..Len(ActivePositions) :
                /\ trace[t][2 + i].e = "add_hotkey"
                /\ trace[t][2 + i].idx = ActivePositions[i]
           /\ Len(hooks) = Len(HookedPositions(t))
           /\ \A j \in 1..Len(hooks) : hooks[j].item = hotkeys[HookedPositions(t)[j]]

C11_Witness ==
  /\ pc["listener"] = "idle"
  /\ call["listener"].op = "run_script"
  /\ call["listener"].spawn = "ok"
  /\ nproc = 1
  /\ Len(ActivePositions) = 2
  /\ Len(hooks) = 2
  /\ hooks[1].item = hotkeys[1]
  /\ hooks[2].item = hotkeys[2]

\* C12: no operation of HotkeyManager lets a failure reach its caller:
\* whichever step fails, the operation returns normally.
C12_NoFailureEscapes ==
  \A t \in Threads : pc[t] # "crashed" /\ call[t].exc = "none"

\* C13: set_global_env_vars(e) makes the global env map equal to e, whatever
\* it held before, saves the state, and from its call to its return leaves
\* the bindings (their order and every field of each) and the hooks as they
\* were.
C13_SetGlobalReplaces ==
  [][ /\ ( /\ AllIdle
           /\ call'["gui"].op = "set_global_env_vars" )
         => /\ global_env_vars' = call'["gui"].env
            /\ UNCHANGED <<hotkeys, heap, hooks, active_hotkeys>>
      /\ ( /\ call["gui"].op = "set_global_env_vars"
           /\ pc["gui"] # "idle" )
         => /\ UNCHANGED <<hotkeys, heap, hooks, active_hotkeys, global_env_vars>>
            /\ pc'["gui"] = "idle"
            /\ trace'["gui"] = <<Event("save", 0, trace'["gui"][1].ok)>>
            /\ trace'["gui"][1].ok =>
                 LET r == LoadResult(config', TRUE)
                 IN  /\ r.exc = "none"
                     /\ r.global_env_vars = call["gui"].env
                     /\ r.hotkeys = Views(hotkeys, heap)
    ]_vars

C13_Witness ==
  /\ Returned("gui", {"set_global_env_vars"})
  /\ Saved("gui")
  /\ call["gui"].env = EmptyEnv
  /\ global_env_vars = EmptyEnv
  /\ config = FileJson(ConfigJson(<<HotkeyItem(KeyT, PathS, NameT, EnvAB)>>, EmptyEnv))
  /\ Len(hooks) = 1

\* C14: an in-range list edit changes only the addressed position:
\* add_hotkey(b) gives the old sequence followed by b; update_hotkey(i, b)
\* gives a sequence of the same length that has b at position i and the old
\* entries elsewhere; remove_hotkey(i) gives the old sequence without its
\* entry at i, the others in their order; and the rest of the operation
\* (save_config, register_all_hotkeys) leaves the sequence alone.
C14_EditsOnePosition ==
  [][ LET old == Views(hotkeys, heap)
          new == Views(hotkeys', heap')
          n == Len(hotkeys)
      IN  /\ \A b \in InputItems :
               add_hotkey(b) => new = Append(old, b)
          /\ \A i \in 0..(n - 1) : \A b \in InputItems :
               update_hotkey(i, b) =>
                 /\ Len(new) = n
                 /\ new[i + 1] = b
                 /\ \A j \in 1..n : j # i + 1 => new[j] = old[j]
          /\ \A i \in 0..(n - 1) :
               remove_hotkey(i) =>
                 /\ Len(new) = n - 1
                 /\ \A j \in 1..i : new[j] = old[j]
                 /\ \A j \in (i + 1)..(n - 1) : new[j] = old[j + 1]
          /\ ( /\ call["gui"].op \in {"add_hotkey", "update_hotkey", "remove_hotkey"}
               /\ pc["gui"] # "idle" )
             => new = old
    ]_vars

C14_Witness ==
  /\ Returned("gui", {"remove_hotkey"})
  /\ call["gui"].index = 0
  /\ Saved("gui")
  /\ Len(hotkeys) = 1
  /\ View(hotkeys[1], heap) = HotkeyItem(KeyR, PathGone, EmptyStr, EmptyEnv)
  /\ Len(hooks) = 1

\* C15: every successful launch writes to a log file of its own: there are
\* at least as many log files as processes spawned, so no launch has opened
\* (and truncated) the log file of another.
C15_UniqueLogs == Cardinality(logs) >= nproc

\* How many hooks launch the binding at position p.
HooksOf(p) == Cardinality({h \in 1..Len(hooks) : hooks[h].item = hotkeys[p]})

\* The hooks are exactly one per active binding of the list.
ExactlyHooked ==
  /\ \A p \in 1..Len(hotkeys) :
       HooksOf(p) = IF hotkeys[p].hotkey # EmptyStr /\ hotkeys[p].script_path # EmptyStr
                    THEN 1 ELSE 0
  /\ \A h \in 1..Len(hooks) : \E p \in 1..Len(hotkeys) : hooks[h].item = hotkeys[p]

\* C16: with run_script entered on the listener thread at any point of an
\* operation of the GUI thread, once no operation is in flight the hooks are
\* exactly one per active binding of the list.
C16_QuietHooksExact == AllIdle => ExactlyHooked

\* The operation of thread t had its save_config fail.
SaveFailed(t) == trace[t] # <<>> /\ trace[t][1].e = "save" /\ ~trace[t][1].ok

C18_HooksMatchBindings ==
  pc["gui"] = "idle" /\ call["gui"].op \in MutatingOps => ExactlyHooked

C18_Witness ==
  /\ Returned("gui", {"update_hotkey"})
  /\ call["gui"].index = 0
  /\ Len(hotkeys) = 2
  /\ hotkeys[1].hotkey = KeyR
  /\ hotkeys[2].hotkey = KeyT /\ hotkeys[2].script_path = PathS
  /\ Len(hooks) = 2
  /\ hooks[1].item = hotkeys[1]
  /\ hooks[2].item = hotkeys[2]

\* C19: no step of run_script, from its entry to its return on any path,
\* changes the bindings (their order and fields), the global env map, the
\* config file or the process environment.
C19_RunScriptReadsOnly ==
  [][ ( \/ pc["listener"] = "idle" /\ pc'["listener"] # "idle"
        \/ pc["listener"] # "idle" /\ call["listener"].op = "run_script"
        \/ AllIdle /\ call'["listener"].op = "run_script" /\ call' # call )
      => /\ Views(hotkeys', heap') = Views(hotkeys, heap)
         /\ global_env_vars' = global_env_vars
         /\ config' = config
         /\ environ' = environ
    ]_vars

C19_Witness ==
  /\ AllIdle
  /\ call["listener"].op = "run_script"
  /\ call["listener"].spawn = "ok"
  /\ Len(trace["listener"]) = 3
  /\ Len(hotkeys) = 2
  /\ hotkeys[1].hotkey = EmptyStr
  /\ global_env_vars = EnvA
  /\ config = FileJson(ConfigJson(Views(hotkeys, heap), global_env_vars))

\* C20: when opening the log file or spawning the process fails, run_script
\* returns normally at once: it has spawned nothing, it does not try again,
\* it calls nothing of the hook layer and the hooks are those that were
\* installed before; a log file exists only if it was opened.
C20_FailedLaunchIsTerminal ==
  [][ \A t \in Threads :
        ( /\ pc[t] = "spawn"
          /\ call'[t].spawn \in {"open_failed", "popen_failed"} )
        => /\ nproc' = nproc
           /\ hooks' = hooks
           /\ active_hotkeys' = active_hotkeys
           /\ pc'[t] = "idle"
           /\ trace'[t] = <<>>
           /\ call'[t].exc = "none"
           /\ call'[t].spawn = "open_failed" => logs' = logs
    ]_vars

C20_Witness ==
  /\ AllIdle
  /\ call["listener"].op = "run_script"
  /\ call["listener"].spawn = "popen_failed"
  /\ trace["listener"] = <<>>
  /\ nproc = 0
  /\ logs # {}
  /\ Len(hooks) = 2

\* C21: when a hooked hotkey is pressed after set_global_env_vars(e) has
\* returned, which installed no hook, the environment of the spawned script
\* is built from e: the process environment, updated with e, updated with the
\* binding's map.
C21_GlobalEnvAtLaunch ==
  /\ pc["listener"] = "resync"
  /\ call["listener"].spawn = "ok"
  /\ call["gui"].op = "set_global_env_vars"
  => /\ \A j \in 1..Len(trace["gui"]) : trace["gui"][j].e = "save"
     /\ call["listener"].spawn_env =
          DictUpdate(DictUpdate(environ, call["gui"].env),
                     heap[call["listener"].item.env_vars])

\* The one spawn so far follows set_global_env_vars(EnvA), so the hook that
\* was pressed is older than the call; the global map was empty at startup.
C21_Witness ==
  /\ pc["listener"] = "resync"
  /\ call["listener"].spawn = "ok"
  /\ nproc = 1
  /\ call["gui"].op = "set_global_env_vars"
  /\ call["gui"].env = EnvA
  /\ heap[call["listener"].item.env_vars] = EnvAB
  /\ call["listener"].spawn_env =
       ("A" :> <<"2">> @@ "B" :> <<"3">> @@ "H" :> <<"g">> @@ "U" :> <<"u">>)

\* C22: once the edit dialog of a binding has been cancelled, the binding's
\* env_vars in the manager's list are what they were when the dialog opened.
C22_CancelKeepsEnvVars ==
  /\ pc["gui"] = "idle"
  /\ call["gui"].op = "edit_hotkey"
  /\ call["gui"].inrange
  => heap[hotkeys[call["gui"].index + 1].env_vars] = call["gui"].env

\* C23: while the edit dialog is open with no recording in progress and no
\* key event being handled, every active binding is hooked.
C23_HookedAfterRecording ==
  pc["gui"] = "dialog" /\ pc["listener"] = "idle" => ExactlyHooked

\* Invocation p is inside record_audio's loop.
Recording(p) == proc[p].pc = "loop"

\* C24: at any time at most one invocation of transcribe.py is inside the
\* recording loop.
C24_SingleRecorder ==
  Cardinality({p \in Invocations : Recording(p)}) <= 1

\* C25: no invocation of transcribe.py that has left its recording loop and
\* is transcribing or cleaning up removes a lock file that another
\* invocation created.
C25_CleanupSparesNewLock ==
  [][ \A p \in Invocations :
        /\ proc[p].pc \in {"cleanup_unlink", "except_unlink"}
        /\ proc'[p].pc # proc[p].pc
        /\ lock # 0
        => lock = p
    ]_vars

\* C26: when the stopping invocation of copy-transcribe-paste.py has opened
\* the recording file, and the invocation whose lock it removed has recorded
\* something, the file it opened is the written and closed recording of that
\* invocation.
C26_StopTranscribesComplete ==
  \A p \in Invocations :
    /\ proc[p].script = "copy"
    /\ proc[p].pc \in {"respond", "except_exists"}
    /\ proc[p].stopped # 0
    /\ proc[proc[p].stopped].frames
    /\ proc[p].heard.exists
    => proc[p].heard = Wave(proc[p].stopped, TRUE)

\* C27: once the DestinationSelector has loaded its list, the list is never
\* empty, always holds the default directory and holds no entry twice, and
\* whenever add_destination or confirm_remove returns having changed the
\* list, the config file holds the new list.
C27_DestinationsKept ==
  /\ [](selector # "init" =>
          /\ destinations # <<>>
          /\ Contains(destinations, DefaultDir)
          /\ \A i, j \in 1..Len(destinations) :
               destinations[i] = destinations[j] => i = j)
  /\ [][ selector # "init" /\ destinations' # destinations /\ selector' = "open"
         => destinations_file' = FileJson(DestinationsJson(destinations')) ]_vars

\* An entry has been removed and added again, and the file holds the list.
C27_Witness ==
  /\ selector = "open"
  /\ destinations = <<DefaultDir, <<"b">>, <<"a">>>>
  /\ destinations_file = FileJson(DestinationsJson(destinations))

====
